---- MODULE Spec2Model ----
(***************************************************************************)
(* argsx: the argument scanner (parseArgs / getKV / next), the lookup      *)
(* (Fetch) and the typed accessors of Value.                               *)
(*                                                                         *)
(* A Go string is a sequence of one-character strings: "--a=" is           *)
(* <<"-", "-", "a", "=">> and "" is <<>>.  The argument list keeps Go's    *)
(* indexes: Go's args[i] is args[i + 1] here, so args[1] is the program    *)
(* name.                                                                   *)
(***************************************************************************)
EXTENDS Integers, Sequences, FiniteSets, TLC

VARIABLES
    args,      \* x.args / os.Args: the argument list
    values,    \* x.values: map from table key to Value
    done,      \* x.done: 1 once the scan has completed
    mux,       \* x.mux: 0 when free, else the caller that holds it
    scans,     \* number of times the scan body of parseArgs was entered
    pc,        \* per caller: its position in Fetch / parseArgs
    idx,       \* per caller: the local cursor idx of parseArgs
    key,       \* per caller: the key passed to Fetch
    val,       \* per caller: the Value Fetch returned
    call,      \* per caller: the accessor call made on val
    res        \* per caller: what the accessor returned

vars == <<args, values, done, mux, scans, pc, idx, key, val, call, res>>

----------------------------------------------------------------------------
(* Bounds                                                                  *)

\* Longest argument list scanned, not counting the program name.
MaxArgs == 3

\* Number of concurrent first-time callers.
NumCallers == 2

----------------------------------------------------------------------------
(* Go's strings package, on sequences of characters                        *)

EmptyStr == <<>>

\* strings.HasPrefix(s, prefix)
HasPrefix(s, prefix) ==
    /\ Len(s) >= Len(prefix)
    /\ SubSeq(s, 1, Len(prefix)) = prefix

\* strings.Index(s, sep): Go's 0-based index of the first sep in s, or -1
Index(s, sep) ==
    LET hits == {i \in 0..(Len(s) - Len(sep)) : SubSeq(s, i + 1, i + Len(sep)) = sep}
    IN  IF hits = {} THEN -1 ELSE CHOOSE i \in hits : \A j \in hits : i <= j

\* s[m-1:n] cut to the bytes s has
Cut(s, m, n) == SubSeq(s, m, IF n > Len(s) THEN Len(s) ELSE n)

\* strings.Contains(s, substr)
Contains(s, substr) == Index(s, substr) >= 0

\* A SplitN that cuts at the last separator instead of the first.
SplitN2AtLast(s, sep) ==
    LET hits == {i \in 0..(Len(s) - Len(sep)) : SubSeq(s, i + 1, i + Len(sep)) = sep}
        i == IF hits = {} THEN -1 ELSE CHOOSE h \in hits : \A j \in hits : j <= h
    IN  IF i < 0 THEN <<s>>
        ELSE <<SubSeq(s, 1, i), SubSeq(s, i + Len(sep) + 1, Len(s))>>

\* strings.SplitN(s, sep, 2) for a non-empty sep: at most two pieces, cut at
\* the first sep
SplitN2(s, sep) ==
    LET i == Index(s, sep)
    IN  IF i < 0 THEN <<s>>
        ELSE <<SubSeq(s, 1, i), SubSeq(s, i + Len(sep) + 1, Len(s))>>

RECURSIVE TrimLeft(_, _)
\* strings.TrimLeft(s, cutset), cutset a set of characters
TrimLeft(s, cutset) ==
    IF s # <<>> /\ Head(s) \in cutset THEN TrimLeft(Tail(s), cutset) ELSE s

RECURSIVE TrimRight(_, _)
\* strings.TrimRight(s, cutset)
TrimRight(s, cutset) ==
    IF s # <<>> /\ s[Len(s)] \in cutset
    THEN TrimRight(SubSeq(s, 1, Len(s) - 1), cutset)
    ELSE s

\* strings.Trim(s, cutset): cutset characters removed from both ends
Trim(s, cutset) == TrimRight(TrimLeft(s, cutset), cutset)

----------------------------------------------------------------------------
(* Value and the table                                                     *)

\* Value{fullkey, payload}
Value(fullkey, payload) == [fullkey |-> fullkey, payload |-> payload]

\* The zero Value, which a Go map read gives for an absent key
ZeroValue == Value(EmptyStr, EmptyStr)

\* NewV(payload): a Value without a key
NewV(payload) == Value(EmptyStr, payload)

\* x.values[ck] = v
MapPut(m, ck, v) ==
    [k \in (DOMAIN m) \cup {ck} |-> IF k = ck THEN v ELSE m[k]]

\* x.values[k] as an expression
MapGet(m, k) == IF k \in DOMAIN m THEN m[k] ELSE ZeroValue

\* make(map[string]Value)
EmptyMap == [k \in {} |-> ZeroValue]

----------------------------------------------------------------------------
(* The scanner                                                             *)

\* next: the token at the cursor and the advanced cursor, or "" and the
\* cursor unchanged when the cursor is past the end
next(a, i) ==
    IF Len(a) - 1 < i
    THEN [v |-> EmptyStr, idx |-> i]
    ELSE [v |-> a[i + 1], idx |-> i + 1]

RECURSIVE getKV(_, _)

\* A getKV that takes the following token as the payload whatever it
\* looks like.
getKVSwallow(a, i) ==
    LET n1 == next(a, i)
        v  == n1.v
    IN  IF Len(v) = 0 THEN [key |-> EmptyStr, value |-> EmptyStr, idx |-> n1.idx]
        ELSE IF ~HasPrefix(v, <<"-">>) THEN getKV(a, n1.idx)
        ELSE IF Contains(v, <<"=">>)
             THEN LET arr == SplitN2(v, <<"=">>)
                  IN  [key |-> arr[1], value |-> arr[2], idx |-> n1.idx]
             ELSE LET n2 == next(a, n1.idx)
                  IN  [key |-> v, value |-> n2.v, idx |-> n2.idx]

\* getKV: the next (key, value) pair from cursor i on, and the cursor
\* after it; ("", "") when the scan is over
getKV(a, i) ==
    LET n1 == next(a, i)
        v  == n1.v
    IN  IF Len(v) = 0 THEN [key |-> EmptyStr, value |-> EmptyStr, idx |-> n1.idx]
        ELSE IF ~HasPrefix(v, <<"-">>) THEN getKV(a, n1.idx)
        ELSE IF Contains(v, <<"=">>)
             THEN LET arr == SplitN2(v, <<"=">>)
                  IN  [key |-> arr[1], value |-> arr[2], idx |-> n1.idx]
             ELSE LET n2 == next(a, n1.idx)
                  IN  IF ~HasPrefix(n2.v, <<"-">>)
                      THEN [key |-> v, value |-> n2.v, idx |-> n2.idx]
                      ELSE [key |-> v, value |-> EmptyStr, idx |-> n2.idx - 1]

\* The condition on which the scan loop of parseArgs breaks
scanOver(kv) == kv.key = EmptyStr /\ kv.value = EmptyStr

\* A store that keeps the first record of a key.
storeKVFirstWins(m, kv) ==
    IF Trim(kv.key, {"-"}) \in DOMAIN m THEN m
    ELSE MapPut(m, Trim(kv.key, {"-"}), Value(kv.key, kv.value))

\* A store that files the record under the raw key, dashes included.
storeKVNoTrim(m, kv) == MapPut(m, kv.key, Value(kv.key, kv.value))

\* The body of the scan loop after getKV: ck := strings.Trim(key, "-");
\* x.values[ck] = Value{key, val}
storeKV(m, kv) == MapPut(m, Trim(kv.key, {"-"}), Value(kv.key, kv.value))

RECURSIVE scanFrom(_, _, _)
\* The whole scan loop run to its end from cursor i on table m
scanFrom(a, i, m) ==
    LET kv == getKV(a, i)
    IN  IF scanOver(kv) THEN m ELSE scanFrom(a, kv.idx, storeKV(m, kv))

----------------------------------------------------------------------------
(* Errors and results                                                      *)

\* A nil error
NoErr == [kind |-> "nil", text |-> EmptyStr]

\* An error value.  kind is "empty" for errors.New("invalid value: empty"),
\* "missing" for "args not specified value for key: `text`", and "syntax"
\* or "range" for what the parsers of strconv and time return on text
Err(kind, text) == [kind |-> kind, text |-> text]

\* A (value, error) pair
Result(v, err) == [v |-> v, err |-> err]

\* A Go slice: nil, or a sequence of elements
NilSlice == [nil |-> TRUE, elems |-> <<>>]
Slice(elems) == [nil |-> FALSE, elems |-> elems]

----------------------------------------------------------------------------
(* Integers of any width: a sign and the decimal digits of the magnitude,  *)
(* least significant first, none for zero                                  *)

IntVal(neg, mag) == [neg |-> neg /\ mag # <<>>, mag |-> mag]

Zero == IntVal(FALSE, <<>>)

RECURSIVE MulAdd(_, _, _)
\* mag * m + c
MulAdd(mag, m, c) ==
    IF mag = <<>>
    THEN IF c = 0 THEN <<>> ELSE <<c % 10>> \o MulAdd(<<>>, m, c \div 10)
    ELSE IF m = 0 THEN MulAdd(<<>>, m, c)
    ELSE <<(Head(mag) * m + c) % 10>> \o MulAdd(Tail(mag), m, (Head(mag) * m + c) \div 10)

\* a < b, for magnitudes
MagLess(a, b) ==
    \/ Len(a) < Len(b)
    \/ /\ Len(a) = Len(b)
       /\ \E i \in 1..Len(a) :
              /\ a[i] < b[i]
              /\ \A j \in (i + 1)..Len(a) : a[j] = b[j]

\* The magnitude written most significant digit first
Decimal(digits) == [i \in 1..Len(digits) |-> digits[Len(digits) + 1 - i]]

\* 2^n, for the n the widths 8, 16, 32 and 64 need
Pow2(n) ==
    CASE n = 7  -> Decimal(<<1, 2, 8>>)
      [] n = 8  -> Decimal(<<2, 5, 6>>)
      [] n = 15 -> Decimal(<<3, 2, 7, 6, 8>>)
      [] n = 16 -> Decimal(<<6, 5, 5, 3, 6>>)
      [] n = 31 -> Decimal(<<2, 1, 4, 7, 4, 8, 3, 6, 4, 8>>)
      [] n = 32 -> Decimal(<<4, 2, 9, 4, 9, 6, 7, 2, 9, 6>>)
      [] n = 63 -> Decimal(<<9, 2, 2, 3, 3, 7, 2, 0, 3, 6, 8, 5, 4, 7, 7, 5, 8, 0, 8>>)
      [] n = 64 -> Decimal(<<1, 8, 4, 4, 6, 7, 4, 4, 0, 7, 3, 7, 0, 9, 5, 5, 1, 6, 1, 6>>)

RECURSIVE MagPred(_)
\* mag - 1, for mag > 0
MagPred(mag) ==
    IF mag = <<1>> THEN <<>>
    ELSE IF Head(mag) > 0 THEN <<Head(mag) - 1>> \o Tail(mag)
    ELSE <<9>> \o MagPred(Tail(mag))

\* 2^n - 1
Pow2Minus1(n) == MagPred(Pow2(n))

\* The integer n >= 0 of the model as an IntVal
Nat2Int(n) == IntVal(FALSE, MulAdd(<<>>, 1, n))

----------------------------------------------------------------------------
(* strconv                                                                 *)

\* strconv.IntSize: the width of int
IntSize == 64

DecimalDigits == {"0", "1", "2", "3", "4", "5", "6", "7", "8", "9"}

\* The value of a digit character in ParseUint: 0-9, then a-z and A-Z from
\* 10 on; 36 stands for a byte that is no digit of any base
DigitValue(c) ==
    CASE c \in DecimalDigits ->
             (CHOOSE d \in 0..9 : <<"0", "1", "2", "3", "4", "5", "6", "7", "8", "9">>[d + 1] = c)
      [] c \in {"a", "A"} -> 10
      [] c \in {"b", "B"} -> 11
      [] c \in {"c", "C"} -> 12
      [] c \in {"d", "D"} -> 13
      [] c \in {"e", "E"} -> 14
      [] c \in {"f", "F"} -> 15
      [] OTHER -> 36

RECURSIVE parseDigits(_, _, _, _)
\* The digit loop of strconv.ParseUint on s, with n accumulated so far:
\* a byte that is no digit of the base ends it with ErrSyntax, a value
\* over 2^bitSize - 1 with ErrRange, at the first byte where either shows
parseDigits(s, base, bitSize, n) ==
    IF s = <<>> THEN [mag |-> n, err |-> "nil"]
    ELSE IF DigitValue(Head(s)) >= base THEN [mag |-> <<>>, err |-> "syntax"]
    ELSE LET n1  == MulAdd(n, base, DigitValue(Head(s)))
             max == Pow2Minus1(bitSize)
         IN  IF MagLess(max, n1)
             THEN [mag |-> max, err |-> "range"]
             ELSE parseDigits(Tail(s), base, bitSize, n1)

\* strconv.ParseUint(s, base, bitSize) for base 0 or 10, on text without
\* the digit separator `_`: the base prefix of base 0, then the digits
ParseUint(s, base, bitSize) ==
    IF s = <<>> THEN [mag |-> <<>>, err |-> "syntax"]
    ELSE LET prefixed == base = 0 /\ s[1] = "0"
             lettered == prefixed /\ Len(s) >= 3
                            /\ s[2] \in {"b", "B", "o", "O", "x", "X"}
             b == IF ~prefixed THEN 10
                  ELSE IF ~lettered THEN 8
                  ELSE CASE s[2] \in {"b", "B"} -> 2
                         [] s[2] \in {"o", "O"} -> 8
                         [] s[2] \in {"x", "X"} -> 16
             digits == IF lettered THEN SubSeq(s, 3, Len(s))
                       ELSE IF prefixed THEN Tail(s)
                       ELSE s
         IN  parseDigits(digits, b, bitSize, <<>>)

\* strconv.ParseInt(s, base, bitSize): (0, ErrSyntax) on malformed text;
\* on a value out of the width's range, ErrRange with the nearest value of
\* the width, 2^(bitSize-1) - 1 or -2^(bitSize-1)
ParseInt(s, base, bitSize) ==
    IF s = <<>> THEN Result(Zero, Err("syntax", s))
    ELSE LET neg  == s[1] = "-"
             rest == IF s[1] \in {"+", "-"} THEN Tail(s) ELSE s
             un   == ParseUint(rest, base, bitSize)
             lim  == Pow2(bitSize - 1)
         IN  IF un.err = "syntax" THEN Result(Zero, Err("syntax", s))
             ELSE IF ~neg /\ ~MagLess(un.mag, lim)
             THEN Result(IntVal(FALSE, MagPred(lim)), Err("range", s))
             ELSE IF neg /\ MagLess(lim, un.mag)
             THEN Result(IntVal(TRUE, lim), Err("range", s))
             ELSE IF un.err = "range"
             THEN Result(IntVal(neg, un.mag), Err("range", s))
             ELSE Result(IntVal(neg, un.mag), NoErr)

\* strconv.Atoi(s): ParseInt(s, 10, 0), the width that of int
Atoi(s) == ParseInt(s, 10, IntSize)

\* strconv.ParseBool(str)
ParseBool(str) ==
    IF str \in { <<"1">>, <<"t">>, <<"T">>, <<"T", "R", "U", "E">>,
                 <<"t", "r", "u", "e">>, <<"T", "r", "u", "e">> }
    THEN Result(TRUE, NoErr)
    ELSE IF str \in { <<"0">>, <<"f">>, <<"F">>, <<"F", "A", "L", "S", "E">>,
                      <<"f", "a", "l", "s", "e">>, <<"F", "a", "l", "s", "e">> }
    THEN Result(FALSE, NoErr)
    ELSE Result(FALSE, Err("syntax", str))

----------------------------------------------------------------------------
(* time                                                                    *)

RECURSIVE MagAdd(_, _, _)
\* a + b + c, for magnitudes a and b and a carry c
MagAdd(a, b, c) ==
    IF a = <<>> THEN MulAdd(b, 1, c)
    ELSE IF b = <<>> THEN MulAdd(a, 1, c)
    ELSE <<(Head(a) + Head(b) + c) % 10>>
             \o MagAdd(Tail(a), Tail(b), (Head(a) + Head(b) + c) \div 10)

RECURSIVE MulAll(_, _)
\* mag times every factor of fs
MulAll(mag, fs) ==
    IF fs = <<>> THEN mag ELSE MulAll(MulAdd(mag, Head(fs), 0), Tail(fs))

\* time's unitMap, for the ASCII units: the nanoseconds of a unit, as the
\* factors of their product
UnitFactors ==
    [ u \in { <<"n", "s">>, <<"u", "s">>, <<"m", "s">>, <<"s">>, <<"m">>, <<"h">> } |->
        CASE u = <<"n", "s">> -> <<>>
          [] u = <<"u", "s">> -> <<1000>>
          [] u = <<"m", "s">> -> <<1000, 1000>>
          [] u = <<"s">>      -> <<1000, 1000, 1000>>
          [] u = <<"m">>      -> <<60, 1000, 1000, 1000>>
          [] u = <<"h">>      -> <<60, 60, 1000, 1000, 1000>> ]

\* Number of leading bytes of s that are in set cs
RECURSIVE LeadingIn(_, _)
LeadingIn(s, cs) ==
    IF s # <<>> /\ Head(s) \in cs THEN 1 + LeadingIn(Tail(s), cs) ELSE 0

RECURSIVE DecimalMag(_, _)
\* The magnitude of the decimal digits s, after n
DecimalMag(s, n) ==
    IF s = <<>> THEN n ELSE DecimalMag(Tail(s), MulAdd(n, 10, DigitValue(Head(s))))

RECURSIVE parseDurationGroups(_, _)
\* The loop of time.ParseDuration over the groups `digits unit` of s, with
\* d nanoseconds accumulated so far, on text without a fraction point:
\* "bad" for a group without digits or with an unknown unit and for a sum
\* over 2^63
parseDurationGroups(s, d) ==
    IF s = <<>> THEN [mag |-> d, ok |-> TRUE]
    ELSE LET nd   == LeadingIn(s, DecimalDigits)
             v    == DecimalMag(SubSeq(s, 1, nd), <<>>)
             rest == SubSeq(s, nd + 1, Len(s))
             nu   == LeadingIn(rest, {c \in {rest[i] : i \in 1..Len(rest)} :
                                          c \notin DecimalDigits \cup {"."}})
             u    == SubSeq(rest, 1, nu)
             bad  == [mag |-> <<>>, ok |-> FALSE]
         IN  IF nd = 0 \/ MagLess(Pow2(63), v) THEN bad
             ELSE IF nu = 0 \/ u \notin DOMAIN UnitFactors THEN bad
             ELSE LET vu == MulAll(v, UnitFactors[u])
                      d1 == MagAdd(d, vu, 0)
                  IN  IF MagLess(Pow2(63), vu) \/ MagLess(Pow2(63), d1) THEN bad
                      ELSE parseDurationGroups(SubSeq(rest, nu + 1, Len(rest)), d1)

\* time.ParseDuration(s): the nanoseconds, or 0 and an error
ParseDuration(s) ==
    LET neg  == s # <<>> /\ s[1] = "-"
        rest == IF s # <<>> /\ s[1] \in {"+", "-"} THEN Tail(s) ELSE s
        g    == parseDurationGroups(rest, <<>>)
    IN  IF rest = <<"0">> THEN Result(Zero, NoErr)
        ELSE IF rest = <<>> \/ ~g.ok THEN Result(Zero, Err("syntax", s))
        ELSE IF neg THEN Result(IntVal(TRUE, g.mag), NoErr)
        ELSE IF MagLess(Pow2Minus1(63), g.mag) THEN Result(Zero, Err("syntax", s))
        ELSE Result(IntVal(FALSE, g.mag), NoErr)

\* time.Time, to the minute: time.Date(year, January, 1, hour, min, 0, 0, UTC)
Time(year, hour, min) == [year |-> year, hour |-> hour, min |-> min]

\* time.Time{}: January 1 of year 1, 00:00 UTC
ZeroTime == Time(1, 0, 0)

\* The layouts time.Kitchen ("3:04PM") and "15:04"
Kitchen == <<"3", ":", "0", "4", "P", "M">>
HourMinute == <<"1", "5", ":", "0", "4">>

\* The small number the one or two decimal digits s spell
SmallNumber(s) ==
    IF Len(s) = 1 THEN DigitValue(s[1]) ELSE DigitValue(s[1]) * 10 + DigitValue(s[2])

\* time.Parse(layout, value) for the two layouts: an hour of one or two
\* digits (up to 12 with AM/PM, up to 23 without), `:`, a minute of two
\* digits up to 59, then AM or PM for Kitchen, and nothing more; a Time of
\* year 0 on success, time.Time{} and an error otherwise
TimeParse(layout, value) ==
    LET nh    == IF LeadingIn(value, DecimalDigits) >= 2 THEN 2
                 ELSE LeadingIn(value, DecimalDigits)
        hour  == SmallNumber(SubSeq(value, 1, nh))
        r1    == SubSeq(value, nh + 1, Len(value))
        mm    == Cut(r1, 2, 3)
        min   == SmallNumber(mm)
        r2    == SubSeq(r1, 4, Len(r1))
        ampm  == Cut(r2, 1, 2)
        r3    == IF layout = Kitchen THEN SubSeq(r2, 3, Len(r2)) ELSE r2
        bad   == Result(ZeroTime, Err("syntax", value))
        range == Result(ZeroTime, Err("range", value))
    IN  IF nh = 0 THEN bad
        ELSE IF layout = Kitchen /\ hour > 12 THEN range
        ELSE IF layout = HourMinute /\ hour >= 24 THEN range
        ELSE IF r1 = <<>> \/ r1[1] # ":" THEN bad
        ELSE IF Len(r1) < 3 \/ LeadingIn(mm, DecimalDigits) < 2 THEN bad
        ELSE IF min >= 60 THEN range
        ELSE IF layout = Kitchen /\ ampm \notin {<<"A", "M">>, <<"P", "M">>} THEN bad
        ELSE IF r3 # <<>> THEN bad
        ELSE IF layout = Kitchen /\ ampm = <<"P", "M">> /\ hour < 12
             THEN Result(Time(0, hour + 12, min), NoErr)
        ELSE IF layout = Kitchen /\ ampm = <<"A", "M">> /\ hour = 12
             THEN Result(Time(0, 0, min), NoErr)
        ELSE Result(Time(0, hour, min), NoErr)

----------------------------------------------------------------------------
(* get, must, the options and toSlice                                      *)

\* A get that never looks at the caller's default.
getNoDefault(v, dv, zero, parsed) ==
    IF Len(v.payload) = 0
    THEN IF Len(v.fullkey) = 0
         THEN Result(zero, Err("empty", EmptyStr))
         ELSE Result(zero, Err("missing", v.fullkey))
    ELSE parsed

\* A get whose error for a missing payload never names the key.
getNoKey(v, dv, zero, parsed) ==
    IF Len(v.payload) = 0
    THEN IF Len(dv) > 0 THEN Result(dv[1], NoErr)
         ELSE Result(zero, Err("empty", EmptyStr))
    ELSE parsed

\* A get that never returns the generic error.
getAlwaysKey(v, dv, zero, parsed) ==
    IF Len(v.payload) = 0
    THEN IF Len(dv) > 0 THEN Result(dv[1], NoErr)
         ELSE Result(zero, Err("missing", v.fullkey))
    ELSE parsed

\* get: on an empty payload the first default, or T's zero value and an
\* error; otherwise parse(v.payload), handed over as parsed
get(v, dv, zero, parsed) ==
    IF Len(v.payload) = 0
    THEN IF Len(dv) > 0 THEN Result(dv[1], NoErr)
         ELSE IF Len(v.fullkey) = 0
         THEN Result(zero, Err("empty", EmptyStr))
         ELSE Result(zero, Err("missing", v.fullkey))
    ELSE parsed

\* must: val, or T's zero value when err is not nil
must(r, zero) == IF r.err # NoErr THEN zero ELSE r.v

\* WithDelimiter(delimiter) and WithDefault(dv...); a WithDefault without
\* arguments carries a nil slice
WithDelimiter(delimiter) ==
    [opt |-> "delimiter", delimiter |-> delimiter, dv |-> NilSlice]
WithDefault(dv) ==
    [opt |-> "default", delimiter |-> EmptyStr,
     dv |-> IF dv = <<>> THEN NilSlice ELSE Slice(dv)]

RECURSIVE applyOpts(_, _)
\* The loop of getOpts: every option applied in turn to op
applyOpts(opts, op) ==
    IF opts = <<>> THEN op
    ELSE applyOpts(Tail(opts),
                   IF Head(opts).opt = "delimiter"
                   THEN [op EXCEPT !.delimiter = Head(opts).delimiter]
                   ELSE [op EXCEPT !.defaultV = Head(opts).dv])

\* getOpts: the delimiter is "," unless an option sets it
getOpts(opts) == applyOpts(opts, [delimiter |-> <<",">>, defaultV |-> NilSlice])

\* options.getDefault: no default, or the one default slice
getDefault(option) == IF option.defaultV.nil THEN <<>> ELSE <<option.defaultV>>

RECURSIVE Split(_, _)
\* strings.Split(s, sep)
Split(s, sep) ==
    IF sep = <<>> THEN [i \in 1..Len(s) |-> <<s[i]>>]
    ELSE IF Index(s, sep) < 0 THEN <<s>>
    ELSE <<SubSeq(s, 1, Index(s, sep))>>
             \o Split(SubSeq(s, Index(s, sep) + Len(sep) + 1, Len(s)), sep)

\* parseInt8, parseInt16, parseInt32: 0 beside any error of ParseInt
parseIntN(payload, bitSize) ==
    LET r == ParseInt(payload, 0, bitSize)
    IN  IF r.err = NoErr THEN r ELSE Result(Zero, r.err)

\* parseInt64: what ParseInt returns
parseInt64(payload) == ParseInt(payload, 0, 64)

\* The parser an accessor of element type typ hands to get or toSlice
parse(typ, layout, payload) ==
    CASE typ = "String"   -> Result(payload, NoErr)
      [] typ = "Bool"     -> ParseBool(payload)
      [] typ = "Int"      -> Atoi(payload)
      [] typ \in {"Int8", "Int16", "Int32"} ->
             parseIntN(payload, CASE typ = "Int8" -> 8 [] typ = "Int16" -> 16 [] typ = "Int32" -> 32)
      [] typ = "Int64"    -> parseInt64(payload)
      [] typ = "Duration" -> ParseDuration(payload)
      [] typ = "Time"     -> TimeParse(layout, payload)

RECURSIVE toSliceLoopPartial(_, _, _, _, _)
\* A loop of toSlice that returns the elements parsed so far beside the
\* error.
toSliceLoopPartial(arr, typ, layout, dv, slice) ==
    IF arr = <<>> THEN Result(slice, NoErr)
    ELSE IF Len(Head(arr)) = 0
    THEN toSliceLoopPartial(Tail(arr), typ, layout, dv,
                            IF Len(dv) > 0 THEN Slice(Append(slice.elems, dv[1])) ELSE slice)
    ELSE IF parse(typ, layout, Head(arr)).err # NoErr
    THEN Result(slice, parse(typ, layout, Head(arr)).err)
    ELSE toSliceLoopPartial(Tail(arr), typ, layout, dv,
                            Slice(Append(slice.elems, parse(typ, layout, Head(arr)).v)))

RECURSIVE toSliceLoop(_, _, _, _, _)
\* The loop of toSlice over the segments arr, slice built so far
toSliceLoop(arr, typ, layout, dv, slice) ==
    IF arr = <<>> THEN Result(slice, NoErr)
    ELSE IF Len(Head(arr)) = 0
    THEN toSliceLoop(Tail(arr), typ, layout, dv,
                     IF Len(dv) > 0 THEN Slice(Append(slice.elems, dv[1])) ELSE slice)
    ELSE LET r == parse(typ, layout, Head(arr))
         IN  IF r.err # NoErr THEN Result(NilSlice, r.err)
             ELSE toSliceLoop(Tail(arr), typ, layout, dv, Slice(Append(slice.elems, r.v)))

\* toSlice: the payload split on the delimiter and every segment parsed
toSlice(payload, delimiter, typ, layout, dv) ==
    toSliceLoop(Split(payload, delimiter), typ, layout, dv, NilSlice)

----------------------------------------------------------------------------
(* The accessors of Value                                                  *)

\* T's zero value, for the element types
ZeroOf(typ) ==
    CASE typ = "String" -> EmptyStr
      [] typ = "Bool"   -> FALSE
      [] typ = "Time"   -> ZeroTime
      [] OTHER          -> Zero

\* String, Int, Int8, Int16, Int32, Int64, Duration and Time:
\* get(v, dv, parse)
ValueScalar(v, typ, layout, dv) ==
    get(v, dv, ZeroOf(typ), parse(typ, layout, v.payload))

\* A Bool without the built-in default.
ValueBoolPlain(v, dv) == get(v, dv, FALSE, ParseBool(v.payload))

\* Bool: get(v, append(dv, true), strconv.ParseBool)
ValueBool(v, dv) == get(v, Append(dv, TRUE), FALSE, ParseBool(v.payload))

\* StringSlice: the segments as they are
ValueStringSlice(v, opts) ==
    get(v, getDefault(getOpts(opts)), NilSlice,
        Result(Slice(Split(v.payload, getOpts(opts).delimiter)), NoErr))

\* BoolSlice: toSlice with the default element true
ValueBoolSlice(v, opts) ==
    get(v, getDefault(getOpts(opts)), NilSlice,
        toSlice(v.payload, getOpts(opts).delimiter, "Bool", EmptyStr, <<TRUE>>))

\* A Slice accessor that files T's zero value for an empty segment.
ValueSliceZeroFill(v, typ, layout, opts) ==
    get(v, getDefault(getOpts(opts)), NilSlice,
        toSlice(v.payload, getOpts(opts).delimiter, typ, layout, <<ZeroOf(typ)>>))

\* IntSlice, Int8Slice, Int16Slice, Int32Slice, Int64Slice, DurationSlice
\* and TimeSlice: toSlice without a default element
ValueSlice(v, typ, layout, opts) ==
    get(v, getDefault(getOpts(opts)), NilSlice,
        toSlice(v.payload, getOpts(opts).delimiter, typ, layout, <<>>))

ElemTypes ==
    {"String", "Bool", "Int", "Int8", "Int16", "Int32", "Int64", "Duration", "Time"}

\* An accessor call: the element type, whether it is the Slice accessor,
\* the scalar defaults dv, the options opts and the layout
Call(typ, slice, dv, opts, layout) ==
    [typ |-> typ, slice |-> slice, dv |-> dv, opts |-> opts, layout |-> layout]

\* The accessor call c made on v
Invoke(c, v) ==
    IF ~c.slice
    THEN IF c.typ = "Bool" THEN ValueBool(v, c.dv)
         ELSE ValueScalar(v, c.typ, c.layout, c.dv)
    ELSE CASE c.typ = "String" -> ValueStringSlice(v, c.opts)
           [] c.typ = "Bool"   -> ValueBoolSlice(v, c.opts)
           [] OTHER            -> ValueSlice(v, c.typ, c.layout, c.opts)

\* MustTimeSlice: must(v.DurationSlice(opts...)), whatever the layout
ValueMustTimeSlice(v, layout, opts) ==
    must(ValueSlice(v, "Duration", EmptyStr, opts), NilSlice)

\* The Must form of the accessor call c made on v: must(v.A(...)), and for
\* the Slice accessor of Time what MustTimeSlice does
MustInvoke(c, v) ==
    IF c.slice /\ c.typ = "Time" THEN ValueMustTimeSlice(v, c.layout, c.opts)
    ELSE must(Invoke(c, v), IF c.slice THEN NilSlice ELSE ZeroOf(c.typ))

----------------------------------------------------------------------------
(* Inputs                                                                  *)

\* The program name, args[0] in Go
Prog == <<"p">>

\* Tokens the scanned argument lists are made of: the empty string, plain
\* tokens, bare flags with one, two and three dashes, a trailing dash,
\* dash-only tokens, and the `=` forms (empty payload, further `=`, empty
\* key, payload with a leading dash).
TokenPool ==
    { <<>>,
      <<"a">>,
      <<"a", "=", "a">>,
      <<"-">>,
      <<"-", "a">>,
      <<"-", "-", "a">>,
      <<"-", "-", "b">>,
      <<"-", "-", "-", "a">>,
      <<"-", "-", "a", "-">>,
      <<"-", "-", "a", "=">>,
      <<"-", "-", "a", "=", "a">>,
      <<"-", "a", "=", "b", "=", "a">> }

\* Keys callers look up
LookupKeys ==
    { <<>>, <<"a">>, <<"b">>, <<"a", "-">>, <<"a", "=">>, <<"-", "a">> }

\* All lists of n tokens of TokenPool
TokenLists(n) == [1..n -> TokenPool]

\* Argument lists: the program name and up to MaxArgs tokens
ArgLists == UNION { {<<Prog>> \o t : t \in TokenLists(n)} : n \in 0..MaxArgs }

----------------------------------------------------------------------------
(* Fetch and parseArgs, one action per step of a caller                    *)

Callers == DOMAIN pc

\* The single caller of the sequential specifications
OneCaller == {1}

\* No accessor call, and no accessor result
NoCall == [acc |-> "none"]
NoRes == [v |-> "none", err |-> "none"]

\* Fetch(k) is called: parseArgs is entered
Fetch(p, k) ==
    /\ pc[p] = "idle"
    /\ key' = [key EXCEPT ![p] = k]
    /\ pc' = [pc EXCEPT ![p] = "load"]
    /\ UNCHANGED <<args, values, done, mux, scans, idx, val, call, res>>

\* if atomic.LoadUint32(&x.done) == 1 { return }
parseArgsLoad(p) ==
    /\ pc[p] = "load"
    /\ pc' = [pc EXCEPT ![p] = IF done = 1 THEN "read" ELSE "lock"]
    /\ UNCHANGED <<args, values, done, mux, scans, idx, key, val, call, res>>

\* x.mux.Lock()
parseArgsLock(p) ==
    /\ pc[p] = "lock"
    /\ mux = 0
    /\ mux' = p
    /\ pc' = [pc EXCEPT ![p] = "check"]
    /\ UNCHANGED <<args, values, done, scans, idx, key, val, call, res>>

\* A second check that never finds the scan done.
parseArgsCheckNoRecheck(p) ==
    /\ pc[p] = "check"
    /\ idx' = [idx EXCEPT ![p] = 1]
    /\ scans' = scans + 1
    /\ pc' = [pc EXCEPT ![p] = "scan"]
    /\ UNCHANGED <<args, values, done, mux, key, val, call, res>>

\* if x.done == 1 { return } (the deferred Unlock runs); else idx := 1 and
\* the scan body is entered
parseArgsCheck(p) ==
    /\ pc[p] = "check"
    /\ IF done = 1
       THEN /\ mux' = 0
            /\ pc' = [pc EXCEPT ![p] = "read"]
            /\ UNCHANGED <<idx, scans>>
       ELSE /\ idx' = [idx EXCEPT ![p] = 1]
            /\ scans' = scans + 1
            /\ pc' = [pc EXCEPT ![p] = "scan"]
            /\ UNCHANGED mux
    /\ UNCHANGED <<args, values, done, key, val, call, res>>

\* One iteration of the scan loop: getKV, then break or store
parseArgsScan(p) ==
    /\ pc[p] = "scan"
    /\ LET kv == getKV(args, idx[p])
       IN  /\ idx' = [idx EXCEPT ![p] = kv.idx]
           /\ IF scanOver(kv)
              THEN /\ pc' = [pc EXCEPT ![p] = "store"]
                   /\ UNCHANGED values
              ELSE /\ values' = storeKV(values, kv)
                   /\ UNCHANGED pc
    /\ UNCHANGED <<args, done, mux, scans, key, val, call, res>>

\* atomic.StoreUint32(&x.done, 1)
parseArgsStore(p) ==
    /\ pc[p] = "store"
    /\ done' = 1
    /\ pc' = [pc EXCEPT ![p] = "unlock"]
    /\ UNCHANGED <<args, values, mux, scans, idx, key, val, call, res>>

\* the deferred x.mux.Unlock(), and parseArgs returns
parseArgsUnlock(p) ==
    /\ pc[p] = "unlock"
    /\ mux' = 0
    /\ pc' = [pc EXCEPT ![p] = "read"]
    /\ UNCHANGED <<args, values, done, scans, idx, key, val, call, res>>

\* A read that files an empty record for a key the table lacks.
FetchReadCreate(p) ==
    /\ pc[p] = "read"
    /\ val' = [val EXCEPT ![p] = MapGet(values, key[p])]
    /\ values' = IF key[p] \in DOMAIN values THEN values
                 ELSE MapPut(values, key[p], ZeroValue)
    /\ pc' = [pc EXCEPT ![p] = "got"]
    /\ UNCHANGED <<args, done, mux, scans, idx, key, call, res>>

\* return x.values[key]
FetchRead(p) ==
    /\ pc[p] = "read"
    /\ val' = [val EXCEPT ![p] = MapGet(values, key[p])]
    /\ pc' = [pc EXCEPT ![p] = "got"]
    /\ UNCHANGED <<args, values, done, mux, scans, idx, key, call, res>>

\* The caller drops the Value (and any accessor result) and is ready for
\* its next lookup
Return(p) ==
    /\ pc[p] \in {"got", "ret", "mret", "rret"}
    /\ pc' = [pc EXCEPT ![p] = "idle"]
    /\ key' = [key EXCEPT ![p] = EmptyStr]
    /\ val' = [val EXCEPT ![p] = ZeroValue]
    /\ call' = [call EXCEPT ![p] = NoCall]
    /\ res' = [res EXCEPT ![p] = NoRes]
    /\ UNCHANGED <<args, values, done, mux, scans, idx>>

\* The state after construction, for callers cs and argument list a:
\* an empty table, done = 0, the mutex free
InitWith(cs, a) ==
    /\ args = a
    /\ values = EmptyMap
    /\ done = 0
    /\ mux = 0
    /\ scans = 0
    /\ pc = [p \in cs |-> "idle"]
    /\ idx = [p \in cs |-> 0]
    /\ key = [p \in cs |-> EmptyStr]
    /\ val = [p \in cs |-> ZeroValue]
    /\ call = [p \in cs |-> NoCall]
    /\ res = [p \in cs |-> NoRes]

\* A step of caller p inside Fetch
ParseSteps(p) ==
    \/ parseArgsLoad(p)
    \/ parseArgsLock(p)
    \/ parseArgsCheck(p)
    \/ parseArgsScan(p)
    \/ parseArgsStore(p)
    \/ parseArgsUnlock(p)
    \/ FetchRead(p)

----------------------------------------------------------------------------
(* SpecScan: one caller, every argument list over TokenPool                *)

InitScan == \E a \in ArgLists : InitWith(OneCaller, a)

NextScan ==
    \E p \in OneCaller :
        \/ \E k \in LookupKeys : Fetch(p, k)
        \/ ParseSteps(p)
        \/ Return(p)

SpecScan == InitScan /\ [][NextScan]_vars

----------------------------------------------------------------------------
(* SpecConc: NumCallers callers make their lookups concurrently on one     *)
(* argument list                                                           *)

ConcCallers == 1..NumCallers

\* Argument lists of the concurrent callers: several flags each, so that a
\* scan has intermediate tables
ConcArgLists ==
    { <<Prog, <<"-", "-", "a">>, <<"a">>, <<"-", "-", "b">>>>,
      <<Prog, <<"-", "-", "a", "=", "a">>, <<"-", "a">>, <<"-", "-", "b">>>>,
      <<Prog, <<"-", "-", "b">>, <<"-", "-", "a", "-">>, <<"a", "=", "a">>>> }

\* Keys the concurrent callers look up: present, and never present
ConcKeys == { <<"a">>, <<"c">> }

InitConc == \E a \in ConcArgLists : InitWith(ConcCallers, a)

NextConc ==
    \E p \in ConcCallers :
        \/ \E k \in ConcKeys : Fetch(p, k)
        \/ ParseSteps(p)
        \/ Return(p)

SpecConc == InitConc /\ [][NextConc]_vars

----------------------------------------------------------------------------
(* SpecReplace: one caller, and the argument list is extended between      *)
(* lookups, as the tests extend os.Args                                    *)

\* Tokens appended to the argument list
AppendPool == { <<"-", "-", "b">>, <<"a">>, <<"-", "-", "a", "=", "a">> }

\* The lists the tests start from
ReplaceArgLists ==
    { <<Prog>>,
      <<Prog, <<"-", "-", "a">>>>,
      <<Prog, <<"-", "-", "a">>, <<"a", "=", "a">>>> }

\* os.Args = append(os.Args, ts...), between two lookups of the caller
SetArgs(p, ts) ==
    /\ pc[p] = "idle"
    /\ Len(args) - 1 + Len(ts) <= MaxArgs
    /\ args' = args \o ts
    /\ UNCHANGED <<values, done, mux, scans, pc, idx, key, val, call, res>>

InitReplace == \E a \in ReplaceArgLists : InitWith(OneCaller, a)

NextReplace ==
    \E p \in OneCaller :
        \/ \E k \in LookupKeys : Fetch(p, k)
        \/ ParseSteps(p)
        \/ Return(p)
        \/ \E n \in 1..MaxArgs : \E ts \in [1..n -> AppendPool] : SetArgs(p, ts)

SpecReplace == InitReplace /\ [][NextReplace]_vars

----------------------------------------------------------------------------
(* SpecValue: one caller looks a flag up and calls an accessor on it       *)

\* Payloads given to the flag --a
PayloadPool ==
    { <<>>,
      <<"7">>,
      <<"1", "0", "0", "0">>,
      <<"-", "5">>,
      <<"4", "0", "0", "0", "0">>,
      <<"3", "0", "0", "0", "0", "0", "0", "0", "0", "0">>,
      <<"9", "2", "2", "3", "3", "7", "2", "0", "3", "6", "8", "5", "4", "7", "7", "5", "8", "0", "8">>,
      <<"x">>,
      <<"1", "x">>,
      <<"0", "x", "1", "0">>,
      <<"t">>,
      <<"t", "r", "u", "e">>,
      <<"3", "s">>,
      <<"1", "m", "2", "s">>,
      <<"3", "x">>,
      <<"3", ":", "0", "4", "P", "M">>,
      <<"1", "3", ":", "0", "4", "P", "M">>,
      <<"1", ",", "2">>,
      <<"1", ",", ",", "2">>,
      <<"1", ",", "x">>,
      <<"E", "-", "F">>,
      <<"t", "r", "u", "e", ",", ",", "F">>,
      <<"3", "s", ",", "1", "m">>,
      <<"3", ":", "0", "4", "P", "M", ",", "4", ":", "0", "3", "P", "M">>,
      <<"3", "0", "0", ",", "1">>,
      <<"3", "s", ",", ",", "1", "m">>,
      <<",", "3", ":", "0", "4", "P", "M">>,
      <<",">>,
      <<"2", ",", "1", ",", "2">> }

\* The flag --a with each payload in the `=` form, with the payloads that
\* have no leading dash in the two-token form too, bare, and absent
ValueArgLists ==
    {<<Prog, <<"-", "-", "a", "=">> \o pl>> : pl \in PayloadPool}
        \cup {<<Prog, <<"-", "-", "a">>, pl>> : pl \in {q \in PayloadPool : ~HasPrefix(q, <<"-">>)}}
        \cup { <<Prog, <<"-", "-", "a">>>>,
               <<Prog, <<"-", "a">>, <<"-", "-", "b", "=", "7">>>>,
               <<Prog, <<"-", "-", "a", "-">>>>,
               <<Prog>> }

\* Keys looked up: present, and never present
ValueKeys == { <<"a">>, <<"c">> }

\* Two values of each element type, to serve as defaults
Samples(typ) ==
    CASE typ = "String" -> << <<"d">>, <<"e", "f">> >>
      [] typ = "Bool"   -> <<FALSE, TRUE>>
      [] typ = "Time"   -> <<Time(2024, 9, 30), Time(0, 0, 0)>>
      [] OTHER          -> <<Nat2Int(1234), Zero>>

\* The layout an accessor of element type typ is called with
LayoutOf(typ) == IF typ = "Time" THEN Kitchen ELSE EmptyStr

\* The scalar calls of element type typ: no default, one default, two
ScalarCalls(typ) ==
    { Call(typ, FALSE, dv, <<>>, LayoutOf(typ)) :
        dv \in { <<>>, <<Samples(typ)[1]>>, <<Samples(typ)[2]>>, Samples(typ) } }

\* The option lists of the slice calls of element type typ
SliceOptions(typ) ==
    { <<>>,
      <<WithDelimiter(<<"-">>)>>,
      <<WithDefault(Samples(typ))>>,
      <<WithDefault(<<>>)>>,
      <<WithDefault(<<Samples(typ)[2]>>), WithDelimiter(<<"-">>)>>,
      <<WithDefault(Samples(typ)), WithDefault(<<Samples(typ)[1]>>)>> }

\* The slice calls of element type typ
SliceCalls(typ) ==
    { Call(typ, TRUE, <<>>, opts, LayoutOf(typ)) : opts \in SliceOptions(typ) }

\* The caller calls an accessor on the Value Fetch returned: any accessor
\* of any element type, scalar or slice, with any of the sampled arguments
Accessor(p) ==
    /\ pc[p] = "got"
    /\ \E typ \in ElemTypes :
           \E c \in ScalarCalls(typ) \cup SliceCalls(typ) :
               /\ call' = [call EXCEPT ![p] = c]
               /\ res' = [res EXCEPT ![p] = Invoke(c, val[p])]
    /\ pc' = [pc EXCEPT ![p] = "ret"]
    /\ UNCHANGED <<args, values, done, mux, scans, idx, key, val>>

InitValue == \E a \in ValueArgLists : InitWith(OneCaller, a)

NextValue ==
    \E p \in OneCaller :
        \/ \E k \in ValueKeys : Fetch(p, k)
        \/ ParseSteps(p)
        \/ Accessor(p)
        \/ Return(p)

SpecValue == InitValue /\ [][NextValue]_vars

----------------------------------------------------------------------------
(* SpecMust: as SpecValue, and after an accessor has returned the caller   *)
(* calls its Must form on the same Value with the same arguments           *)

\* The arguments of call c are arguments of its Must form too: those of
\* MustTimeSlice are Option[time.Duration], so of the options of a
\* TimeSlice call only the delimiters carry over
MustCallable(c) ==
    ~(c.slice /\ c.typ = "Time" /\ \E i \in 1..Len(c.opts) : c.opts[i].opt = "default")

\* The caller calls the Must form of its last call, same Value, same
\* arguments; its result is kept beside the accessor's
MustAccessor(p) ==
    /\ pc[p] = "ret"
    /\ MustCallable(call[p])
    /\ res' = [res EXCEPT ![p] = [v |-> res[p].v, err |-> res[p].err,
                                  mv |-> MustInvoke(call[p], val[p])]]
    /\ pc' = [pc EXCEPT ![p] = "mret"]
    /\ UNCHANGED <<args, values, done, mux, scans, idx, key, val, call>>

NextMust ==
    \E p \in OneCaller :
        \/ \E k \in ValueKeys : Fetch(p, k)
        \/ ParseSteps(p)
        \/ Accessor(p)
        \/ MustAccessor(p)
        \/ Return(p)

SpecMust == InitValue /\ [][NextMust]_vars

----------------------------------------------------------------------------
(* SpecAgain: as SpecValue, and after an accessor has returned the caller  *)
(* calls it again on the same Value with the same arguments                *)

\* The caller repeats its last call; the second result is kept beside the
\* first
AccessorAgain(p) ==
    /\ pc[p] = "ret"
    /\ res' = [res EXCEPT ![p] = [v |-> res[p].v, err |-> res[p].err,
                                  again |-> Invoke(call[p], val[p])]]
    /\ pc' = [pc EXCEPT ![p] = "rret"]
    /\ UNCHANGED <<args, values, done, mux, scans, idx, key, val, call>>

NextAgain ==
    \E p \in OneCaller :
        \/ \E k \in ValueKeys : Fetch(p, k)
        \/ ParseSteps(p)
        \/ Accessor(p)
        \/ AccessorAgain(p)
        \/ Return(p)

SpecAgain == InitValue /\ [][NextAgain]_vars

----------------------------------------------------------------------------
(* What the claims say of the scan, stated on the argument list itself     *)

\* Go's args[i]
Token(i) == args[i + 1]

\* Last Go index of the argument list
LastIndex == Len(args) - 1

\* t begins with a dash
Dashed(t) == t # <<>> /\ t[1] = "-"

\* t holds an `=` somewhere
HasEquals(t) == \E j \in 1..Len(t) : t[j] = "="

\* Position of the first `=` of t
FirstEquals(t) == CHOOSE j \in 1..Len(t) : t[j] = "=" /\ \A h \in 1..(j - 1) : t[h] # "="

\* Token i is followed by a token that can be its payload
PayloadFollows(i) == i + 1 <= LastIndex /\ ~Dashed(Token(i + 1))

\* The raw key of the flag at i: the text before its first `=`, or all of it
RawKeyAt(i) ==
    IF HasEquals(Token(i)) THEN SubSeq(Token(i), 1, FirstEquals(Token(i)) - 1)
    ELSE Token(i)

\* The payload of the flag at i: the text after its first `=`, or the
\* following token when that is no flag, or nothing
PayloadAt(i) ==
    IF HasEquals(Token(i))
    THEN SubSeq(Token(i), FirstEquals(Token(i)) + 1, Len(Token(i)))
    ELSE IF PayloadFollows(i) THEN Token(i + 1) ELSE <<>>

\* Caller p takes a step
Steps(p) == pc'[p] # pc[p] \/ idx'[p] # idx[p]

\* The step files exactly the record r, under some key, and touches no
\* other entry
StoresOnly(r) ==
    \E ck \in DOMAIN values' :
        /\ values'[ck] = r
        /\ DOMAIN values' = (DOMAIN values) \cup {ck}
        /\ \A k \in (DOMAIN values) \ {ck} : values'[k] = values[k]

\* C1: when the scan's cursor is on a dash-prefixed token without `=`, the
\* iteration files that token as a flag: with the following token as its
\* payload and the cursor past it when that token exists and has no leading
\* dash; otherwise with an empty payload and the cursor on the following
\* token, which the next iteration scans as a key.
C1_BareFlagPayload ==
    [][\A p \in Callers :
          ( /\ pc[p] = "scan"
            /\ Steps(p)
            /\ idx[p] <= LastIndex
            /\ Dashed(Token(idx[p]))
            /\ ~HasEquals(Token(idx[p])) )
          => /\ pc'[p] = "scan"
             /\ IF PayloadFollows(idx[p])
                THEN /\ StoresOnly(Value(Token(idx[p]), Token(idx[p] + 1)))
                     /\ idx'[p] = idx[p] + 2
                ELSE /\ StoresOnly(Value(Token(idx[p]), <<>>))
                     /\ idx'[p] = idx[p] + 1]_vars

\* C1 witness: [p, --a, --b, a] scanned: --a has an empty payload, --b has a
C1_Witness ==
    /\ args = <<Prog, <<"-", "-", "a">>, <<"-", "-", "b">>, <<"a">>>>
    /\ pc[1] = "store"
    /\ DOMAIN values = {<<"a">>, <<"b">>}
    /\ values[<<"a">>] = Value(<<"-", "-", "a">>, <<>>)
    /\ values[<<"b">>] = Value(<<"-", "-", "b">>, <<"a">>)

\* C2: when the scan's cursor is on a dash-prefixed token that holds `=`,
\* the iteration files the text before the first `=` as the raw key and all
\* the text after it as the payload, and leaves the cursor on the following
\* token.
C2_EqualsSplitOnce ==
    [][\A p \in Callers :
          ( /\ pc[p] = "scan"
            /\ Steps(p)
            /\ idx[p] <= LastIndex
            /\ Dashed(Token(idx[p]))
            /\ HasEquals(Token(idx[p])) )
          => LET t == Token(idx[p])
                 j == FirstEquals(t)
             IN  /\ pc'[p] = "scan"
                 /\ StoresOnly(Value(SubSeq(t, 1, j - 1), SubSeq(t, j + 1, Len(t))))
                 /\ idx'[p] = idx[p] + 1]_vars

\* C2 witness: [p, -a=b=a, a] scanned: raw key -a, payload b=a, and the
\* following token is no payload of it
C2_Witness ==
    /\ args = <<Prog, <<"-", "a", "=", "b", "=", "a">>, <<"a">>>>
    /\ pc[1] = "store"
    /\ DOMAIN values = {<<"a">>}
    /\ values[<<"a">>] = Value(<<"-", "a">>, <<"b", "=", "a">>)

\* P may be the payload of the round trip: no delimiter, no leading dash
PlainPayload(t) == ~Dashed(t) /\ \A j \in 1..Len(t) : t[j] # ","

\* The argument list is [prog, --K, P] for the key K caller p looked up
RoundTripOf(p) ==
    /\ pc[p] = "got"
    /\ Len(args) = 3
    /\ args[2] = <<"-", "-">> \o key[p]
    /\ PlainPayload(args[3])

\* C5 as stated: for any key K, [prog, --K, P] looked up under K gives P.
C5_RoundTripAnyKey ==
    \A p \in Callers : RoundTripOf(p) => val[p].payload = args[3]

\* K is a key the round trip holds for: no `=`, no dash at either end
PlainKey(k) ==
    /\ \A j \in 1..Len(k) : k[j] # "="
    /\ k # <<>> => (k[1] # "-" /\ k[Len(k)] # "-")

\* C5 amended: for any key K without `=` and without a dash at either end,
\* [prog, --K, P] looked up under K gives a value whose payload is P.
C5_RoundTrip ==
    \A p \in Callers :
        (RoundTripOf(p) /\ PlainKey(key[p])) => val[p].payload = args[3]

\* C5 witness: [p, --a, a=a] looked up under a
C5_Witness ==
    /\ args = <<Prog, <<"-", "-", "a">>, <<"a", "=", "a">>>>
    /\ RoundTripOf(1)
    /\ key[1] = <<"a">>
    /\ val[1].payload = <<"a", "=", "a">>

\* The flags the scan has passed when its cursor is at c
FlagsBefore(c) == {i \in 1..LastIndex : i < c /\ Dashed(Token(i))}

\* Those filed under table key ck
FlagsOf(ck, c) == {i \in FlagsBefore(c) : Trim(RawKeyAt(i), {"-"}) = ck}

----------------------------------------------------------------------------
(* What the claims say of concurrent callers and of a replaced list        *)

\* The table a complete scan of the current argument list leaves
FullTable == scanFrom(args, 1, EmptyMap)

\* C3: with concurrent first-time callers the scan body is entered exactly
\* once, and every caller that has returned from parseArgs sees the table
\* of the completed scan, in the table and in the Value Fetch hands back.
C3_ScanOnceAndComplete ==
    /\ scans <= 1
    /\ \A p \in Callers :
           pc[p] \in {"read", "got"} =>
               /\ scans = 1
               /\ done = 1
               /\ values = FullTable
    /\ \A p \in Callers :
           pc[p] = "got" => val[p] = MapGet(FullTable, key[p])

\* C3 witness: caller 2 went for the lock before the scan was done and now
\* holds it with the scan done, while caller 1 already has a found Value
C3_Witness ==
    /\ pc[2] = "check"
    /\ done = 1
    /\ pc[1] = "got"
    /\ val[1].payload # <<>>

\* C4 as stated: after the argument list was replaced or extended, a lookup
\* rescans: no caller reads a table other than that of the current list.
C4_ReplaceRescans ==
    \A p \in Callers :
        pc[p] \in {"read", "got"} => (scans >= 1 /\ values = FullTable)

----------------------------------------------------------------------------
(* What the claims say of the accessors                                    *)

\* The caller's call has returned, on a Value with an empty payload
EmptyPayloadCall(p) == pc[p] = "ret" /\ val[p].payload = <<>>

\* The WithDefault options among opts
DefaultOptions(opts) == {i \in 1..Len(opts) : opts[i].opt = "default"}

\* The slice the last WithDefault of opts carries
LastDefault(opts) ==
    opts[CHOOSE i \in DefaultOptions(opts) : \A j \in DefaultOptions(opts) : j <= i].dv

\* The call carries a default: a scalar default, or a WithDefault with
\* elements
HasDefault(c) ==
    IF c.slice
    THEN DefaultOptions(c.opts) # {} /\ ~LastDefault(c.opts).nil
    ELSE c.dv # <<>>

\* The zero value of what call c returns
ZeroResult(c) ==
    IF c.slice THEN NilSlice
    ELSE CASE c.typ = "String" -> <<>>
           [] c.typ = "Bool"   -> FALSE
           [] c.typ = "Time"   -> [year |-> 1, hour |-> 0, min |-> 0]
           [] OTHER            -> [neg |-> FALSE, mag |-> <<>>]

C8_ParseFailureGivesZero ==
    \A p \in Callers :
        ( /\ pc[p] = "ret"
          /\ ~call[p].slice
          /\ val[p].payload # <<>>
          /\ res[p].err.kind # "nil" )
        => res[p].v = ZeroResult(call[p])

\* The caller's non-boolean call without a default has returned, on the
\* Value of a flag that is in the argument list with an empty payload
MissingValueCall(p) ==
    /\ EmptyPayloadCall(p)
    /\ val[p].fullkey # <<>>
    /\ call[p].typ # "Bool"
    /\ ~HasDefault(call[p])

C10_BoolEmptyPayload ==
    \A p \in Callers :
        (EmptyPayloadCall(p) /\ call[p].typ = "Bool" /\ ~call[p].slice) =>
            res[p] = [v |-> IF call[p].dv # <<>> THEN call[p].dv[1] ELSE TRUE,
                      err |-> NoErr]

\* C10 witness: Bool without a default on the bare flag --a returns true
C10_Witness ==
    /\ EmptyPayloadCall(1)
    /\ args = <<Prog, <<"-", "-", "a">>>>
    /\ val[1].fullkey = <<"-", "-", "a">>
    /\ call[1].typ = "Bool"
    /\ ~call[1].slice
    /\ call[1].dv = <<>>
    /\ res[1] = [v |-> TRUE, err |-> NoErr]

----------------------------------------------------------------------------
(* What the claims say of the Must forms                                   *)

\* What the Must form owes after the accessor returned r to call c
MustOf(c, r) == IF r.err = NoErr THEN r.v ELSE ZeroResult(c)

\* C11 as stated: for every accessor A, MustA on the same value with the
\* same arguments returns what A returned when A's error is nil, and the
\* zero value (nil for a slice) otherwise.
C11_MustMirrorsAccessor ==
    \A p \in Callers :
        pc[p] = "mret" => res[p].mv = MustOf(call[p], [v |-> res[p].v, err |-> res[p].err])

\* C12 as stated: MustTimeSlice returns the times TimeSlice returns when
\* TimeSlice succeeds, and nil when TimeSlice fails.
C12_MustTimeSliceOfTimeSlice ==
    \A p \in Callers :
        (pc[p] = "mret" /\ call[p].slice /\ call[p].typ = "Time") =>
            IF res[p].err = NoErr THEN res[p].mv = res[p].v ELSE res[p].mv.nil

----------------------------------------------------------------------------
(* What the claims say of the segments of a payload                        *)

\* The segments of the payload of caller p's Value, for the delimiter of
\* its call
Segments(p) == Split(val[p].payload, getOpts(call[p].opts).delimiter)

\* Those that are not empty, in order
NonEmptySegments(p) == SelectSeq(Segments(p), LAMBDA g : g # <<>>)

\* Every non-empty segment parses as the element type of the call
SegmentsParse(p) ==
    \A i \in 1..Len(NonEmptySegments(p)) :
        parse(call[p].typ, call[p].layout, NonEmptySegments(p)[i]).err = NoErr

\* A Slice accessor other than BoolSlice has returned, on a non-empty
\* payload with an empty segment and non-empty segments that all parse
EmptySegmentCall(p) ==
    /\ pc[p] = "ret"
    /\ call[p].slice
    /\ call[p].typ # "Bool"
    /\ val[p].payload # <<>>
    /\ Len(NonEmptySegments(p)) < Len(Segments(p))
    /\ SegmentsParse(p)

SliceCall(p) == pc[p] = "ret" /\ call[p].slice /\ val[p].payload # <<>>

\* The segments that fail to parse as the element type of the call
FailingSegments(p) ==
    {i \in 1..Len(Segments(p)) :
        /\ Segments(p)[i] # <<>>
        /\ parse(call[p].typ, call[p].layout, Segments(p)[i]).err # NoErr}

\* The segments that give an element: all of them for StringSlice and
\* BoolSlice, the non-empty ones for the others
ElementSegments(p) ==
    IF call[p].typ \in {"String", "Bool"} THEN Segments(p) ELSE NonEmptySegments(p)

\* The element segment g gives: itself for StringSlice, true for an empty
\* segment of BoolSlice, its parsed value otherwise
ElementOf(p, g) ==
    IF call[p].typ = "String" THEN g
    ELSE IF g = <<>> THEN TRUE
    ELSE parse(call[p].typ, call[p].layout, g).v

----------------------------------------------------------------------------
(* What the claims say of the end of the scan and of the table keys        *)

\* C15 as stated: the scan stops only with its cursor past the end of the
\* list, so that when it stops every dash-prefixed token at an index >= 1
\* has an entry under its table key.
C15_ScanCoversList ==
    \A p \in Callers :
        pc[p] = "store" =>
            /\ idx[p] > LastIndex
            /\ \A i \in 1..LastIndex :
                   Dashed(Token(i)) => Trim(RawKeyAt(i), {"-"}) \in DOMAIN values

\* C16 as stated: a record's table key is its raw key without its leading
\* dashes and otherwise unchanged, trailing dashes kept.
C16_KeyStripsLeadingDashesOnly ==
    \A ck \in DOMAIN values : ck = TrimLeft(values[ck].fullkey, {"-"})

\* C17 as stated: in every state of the scan every table key is a
\* non-empty string without a leading dash, and every record's raw key
\* begins with a dash.
C17_KeysNonEmptyUndashed ==
    \A ck \in DOMAIN values :
        /\ ck # <<>>
        /\ ck[1] # "-"
        /\ Dashed(values[ck].fullkey)

----------------------------------------------------------------------------
(* What the claims say of lookups on the built table                       *)

AbsentLookup(p) == pc[p] \in {"got", "ret"} /\ key[p] \notin DOMAIN values

====
